---------------------------- MODULE Spec2Model ----------------------------
(***************************************************************************)
(* Amubophis: a Telegram bot that watches Meteora DLMM positions.          *)
(*                                                                         *)
(* src/meteora-monitor-bot.ts holds two builds of the bot:                 *)
(*   - lines 1-188, class MeteoraMonitor: alerts only                      *)
(*     (variant = "monitor");                                              *)
(*   - lines 189-623, module-level functions: alerts and the automatic     *)
(*     rebalance pipeline (variant = "bot").                               *)
(*                                                                         *)
(* Both are single-threaded Node programs.  Code between two awaits runs   *)
(* to completion, so one action of this module is one resumption of an     *)
(* async function: everything it does from the return (or rejection) of    *)
(* the awaited call up to the next await.  A check cycle is one call of    *)
(* checkPositions; setInterval starts a new one whether or not the         *)
(* previous one has finished, so cycles overlap.                           *)
(***************************************************************************)
EXTENDS Integers, Sequences, FiniteSets, TLC

(***************************************************************************)
(* Bounds of the model.                                                    *)
(***************************************************************************)
\* number of check cycles that may be in flight at once
MaxCycles == 2
\* the active bin id is drawn from 1..NumBins
NumBins == 4
\* removeLiquidity returns 1..MaxTxs transactions
MaxTxs == 2
\* the alert counters saturate at MaxAlerts
MaxAlerts == 2
\* planner inputs: balances 0..MaxBalance, price numerators 0..MaxPriceNum
MaxBalance == 6
MaxPriceNum == 3

Cycles == 1..MaxCycles
Bins == 1..NumBins

\* position.publicKey.toString() of the positions the pool query may return
Keys == {"p1", "p2"}
\* position.positionData.lowerBinId / upperBinId
lowerBinId(k) == IF k = "p1" THEN 2 ELSE 3
upperBinId(k) == IF k = "p1" THEN 3 ELSE 4
\* what positions.userPositions may hold
PositionLists == {<<>>, <<"p1">>, <<"p1", "p2">>}

VARIABLES
    variant,            \* "bot" or "monitor": which build runs
    isRebalancing,      \* the module-level lock (line 212)
    positionStatuses,   \* Map positionKey -> {isInRange, lastNotified}
    pc,                 \* per cycle: the await it is suspended at
    positions,          \* per cycle: positions.userPositions of this cycle
    idx,                \* per cycle: index of the position the loop is at
    activeBinId,        \* per cycle: activeBin.binId of this cycle
    err,                \* per cycle: the error being handled
    txsLeft,            \* per cycle: transactions removePositionLiquidity has left
    xBalance, yBalance, \* per cycle: balances read at line 426
    alertsOut,          \* per key: out-of-range alerts delivered since the
                        \*   last in-range observation of the key
    alertsBack,         \* per key: back-in-range alerts delivered since the
                        \*   last out-of-range observation of the key
    inX, inY, inPrice,  \* planner inputs (SpecPlanner)
    plan,               \* planner output (SpecPlanner)
    statusPc,           \* the status command: the await it is suspended at
    statusPositions,    \* the status command: its positions.userPositions
    statusReply,        \* the last message the status command replied with
    inFinalX, inFinalY, \* deposit inputs: the balances read at line 468
    inDepositBin,       \* deposit input: activeBin.binId read at line 332
    deposit             \* what createNewPosition asks the pool to deposit

cycleVars == <<pc, positions, idx, activeBinId, err, txsLeft, xBalance, yBalance>>
plannerVars == <<inX, inY, inPrice, plan>>
statusVars == <<statusPc, statusPositions, statusReply>>
\* what no step of a check cycle touches
depositVars == <<inFinalX, inFinalY, inDepositBin, deposit>>
otherVars == <<plannerVars, statusVars, depositVars>>
vars == <<variant, isRebalancing, positionStatuses, cycleVars,
          alertsOut, alertsBack, plannerVars, statusVars, depositVars>>

(***************************************************************************)
(* Faults.  Every call into a collaborator may reject.  F is the set of    *)
(* fault classes a specification lets happen.                              *)
(***************************************************************************)
\*   query    getPositionsByUserAndLbPair, getActiveBin of checkPositions
\*   alert    the range alerts of lines 530 and 538 (82 and 88)
\*   report   the error alert of line 548 (98)
\*   send     every sendMessage of rebalancePosition and its callees
\*   remove   dlmm.removeLiquidity
\*   tx       sendAndConfirmTransaction of a withdraw transaction
\*   balance  getTokenBalances
\*   price    getActiveBin of rebalancePosition (or a bin without price)
\*   route    getRoutes (or no route returned)
\*   exec     executeRoute
\*   deposit  getActiveBin, initializePositionAndAddLiquidityByStrategy and
\*            sendAndConfirmTransaction of createNewPosition
AllFaults == {"query", "alert", "report", "send", "remove", "tx", "balance",
              "price", "route", "exec", "deposit"}
May(kind, F) == IF kind \in F THEN BOOLEAN ELSE {TRUE}

(***************************************************************************)
(* checkPositions: the range check of one position.                        *)
(***************************************************************************)
isInRangeOf(k, bin) == lowerBinId(k) <= bin /\ bin <= upperBinId(k)

DefaultStatus == [isInRange |-> TRUE, lastNotified |-> FALSE]

GetStatus(m, k) == IF k \in DOMAIN m THEN m[k] ELSE DefaultStatus

MapSet(m, k, v) == [x \in (DOMAIN m) \cup {k} |-> IF x = k THEN v ELSE m[x]]

\* the status the loop body stores for a position it sent no message for
KeepStatus(m, k, bin) ==
    MapSet(m, k, [isInRange |-> isInRangeOf(k, bin),
                  lastNotified |-> GetStatus(m, k).lastNotified])

\* a plausible slip: a position is alerted on only once it has a stored status
NeedsOutAlertOnceSeen(m, k, bin) ==
    k \in DOMAIN m /\ ~isInRangeOf(k, bin) /\ ~m[k].lastNotified
NeedsOutAlert(m, k, bin) == ~isInRangeOf(k, bin) /\ ~GetStatus(m, k).lastNotified
\* a plausible slip: the back-in-range branch forgets to test isInRange
NeedsBackAlertAnyBin(m, k, bin) == GetStatus(m, k).lastNotified
NeedsBackAlert(m, k, bin) == isInRangeOf(k, bin) /\ GetStatus(m, k).lastNotified

(***************************************************************************)
(* The for loop from index i on, run until its next await: positions that  *)
(* need no message are stored on the way; the loop stops at the first      *)
(* position that needs an alert (at "sendOutOfRange" or "sendBackInRange") *)
(* or at the end of the list ("idle": checkPositions returns).             *)
(***************************************************************************)
RECURSIVE Scan(_, _, _, _)
Scan(m, ps, i, bin) ==
    IF i > Len(ps) THEN [map |-> m, idx |-> i, pc |-> "idle"]
    ELSE IF NeedsOutAlert(m, ps[i], bin)
         THEN [map |-> m, idx |-> i, pc |-> "sendOutOfRange"]
    ELSE IF NeedsBackAlert(m, ps[i], bin)
         THEN [map |-> m, idx |-> i, pc |-> "sendBackInRange"]
    ELSE Scan(KeepStatus(m, ps[i], bin), ps, i + 1, bin)

\* the keys the loop looked at between index i and index j
Observed(ps, i, j) == {ps[n] : n \in {n \in i..j : n <= Len(ps)}}

Saturate(n) == IF n < MaxAlerts THEN n + 1 ELSE MaxAlerts

\* an observation of a key in range ends its out-of-range streak, and back
ObserveOut(a, seen, bin) ==
    [k \in Keys |-> IF k \in seen /\ isInRangeOf(k, bin) THEN 0 ELSE a[k]]
ObserveBack(a, seen, bin) ==
    [k \in Keys |-> IF k \in seen /\ ~isInRangeOf(k, bin) THEN 0 ELSE a[k]]

\* cycle c resumes the loop at index i over map m, with the bin and the
\* position list of its own snapshot; aOut and aBack are the alert counters
\* as the resuming action leaves them
RunLoop(c, m, ps, i, bin, aOut, aBack) ==
    LET r == Scan(m, ps, i, bin)
        seen == Observed(ps, i, r.idx)
        done == r.pc = "idle"
    IN  /\ positionStatuses' = r.map
        /\ pc' = [pc EXCEPT ![c] = r.pc]
        /\ idx' = [idx EXCEPT ![c] = IF done THEN 0 ELSE r.idx]
        /\ positions' = [positions EXCEPT ![c] = IF done THEN <<>> ELSE ps]
        /\ activeBinId' = [activeBinId EXCEPT ![c] = IF done THEN 0 ELSE bin]
        /\ alertsOut' = ObserveOut(aOut, seen, bin)
        /\ alertsBack' = ObserveBack(aBack, seen, bin)

Goto(c, p) == pc' = [pc EXCEPT ![c] = p]

\* the position cycle c is at
cur(c) == positions[c][idx[c]]

\* lines 545-548 (95-98): the catch of checkPositions takes over with error e
CatchCheck(c, e) ==
    /\ pc' = [pc EXCEPT ![c] = "sendError"]
    /\ err' = [err EXCEPT ![c] = e]
    /\ positions' = [positions EXCEPT ![c] = <<>>]
    /\ idx' = [idx EXCEPT ![c] = 0]
    /\ activeBinId' = [activeBinId EXCEPT ![c] = 0]

loopVars == <<positions, idx, activeBinId>>
rebalanceVars == <<txsLeft, xBalance, yBalance>>
ghostVars == <<alertsOut, alertsBack>>

(***************************************************************************)
(* checkPositions, lines 511-550 (60-100 in MeteoraMonitor).               *)
(***************************************************************************)
\* no call of checkPositions is in flight in slot c
Free(c) == pc[c] \in {"idle", "rejected"}

\* the timer (or startMonitoring) calls checkPositions: it runs to the await
\* of getPositionsByUserAndLbPair.  The call takes the lowest free slot.
CycleStart(c) ==
    /\ Free(c)
    /\ \A d \in Cycles : d < c => ~Free(d)
    /\ pc' = [pc EXCEPT ![c] = "getPositions"]
    /\ err' = [err EXCEPT ![c] = "none"]
    /\ UNCHANGED <<variant, isRebalancing, positionStatuses, positions, idx,
                   activeBinId, rebalanceVars, ghostVars, otherVars>>

GetPositionsReturn(c, F) ==
    /\ pc[c] = "getPositions"
    /\ \E ok \in May("query", F) :
        IF ok
        THEN /\ \E ps \in PositionLists :
                    positions' = [positions EXCEPT ![c] = ps]
             /\ pc' = [pc EXCEPT ![c] = "getActiveBin"]
             /\ UNCHANGED <<idx, activeBinId, err>>
        ELSE CatchCheck(c, "query")
    /\ UNCHANGED <<variant, isRebalancing, positionStatuses, rebalanceVars,
                   ghostVars, otherVars>>

GetActiveBinReturn(c, F) ==
    /\ pc[c] = "getActiveBin"
    /\ \E ok \in May("query", F) :
        IF ok
        THEN /\ \E bin \in Bins :
                    RunLoop(c, positionStatuses, positions[c], 1, bin,
                            alertsOut, alertsBack)
             /\ UNCHANGED err
        ELSE /\ CatchCheck(c, "query")
             /\ UNCHANGED <<positionStatuses, ghostVars>>
    /\ UNCHANGED <<variant, isRebalancing, rebalanceVars, otherVars>>

\* a plausible slip: line 534 (83) is missing
MarkNotifiedForgets(c, aOut) ==
    RunLoop(c, KeepStatus(positionStatuses, cur(c), activeBinId[c]),
            positions[c], idx[c] + 1, activeBinId[c], aOut, alertsBack)

\* lines 534, 542-543 (83, 92-93), then the loop goes on
MarkNotified(c, aOut) ==
    RunLoop(c, MapSet(positionStatuses, cur(c),
                      [isInRange |-> isInRangeOf(cur(c), activeBinId[c]),
                       lastNotified |-> TRUE]),
            positions[c], idx[c] + 1, activeBinId[c], aOut, alertsBack)

\* a plausible slip: the flag is tested at entry but set only after the
\* first await
RebalanceEntryLateLock(c) ==
    /\ Goto(c, IF isRebalancing THEN "sendSkip" ELSE "sendStart")
    /\ UNCHANGED isRebalancing

\* lines 413-421: rebalancePosition up to its first await
RebalanceEntry(c) ==
    IF isRebalancing
    THEN /\ pc' = [pc EXCEPT ![c] = "sendSkip"]
         /\ UNCHANGED isRebalancing
    ELSE /\ isRebalancing' = TRUE
         /\ pc' = [pc EXCEPT ![c] = "sendStart"]

\* the out-of-range alert of line 530 (82) returns
SendOutOfRangeReturn(c, F) ==
    /\ pc[c] = "sendOutOfRange"
    /\ \E ok \in May("alert", F) :
        IF ok
        THEN LET aOut == [alertsOut EXCEPT ![cur(c)] = Saturate(@)]
             IN  IF variant = "bot"
                 THEN /\ RebalanceEntry(c)
                      /\ alertsOut' = aOut
                      /\ UNCHANGED <<positionStatuses, positions, idx,
                                     activeBinId, err, alertsBack>>
                 ELSE /\ MarkNotified(c, aOut)
                      /\ UNCHANGED <<isRebalancing, err>>
        ELSE /\ CatchCheck(c, "alert")
             /\ UNCHANGED <<isRebalancing, positionStatuses, ghostVars>>
    /\ UNCHANGED <<variant, rebalanceVars, otherVars>>

\* a plausible slip: line 539 (89) is missing, the flag is not reset
SendBackInRangeKeepsFlag(c, F) ==
    /\ pc[c] = "sendBackInRange"
    /\ \E ok \in May("alert", F) :
        IF ok
        THEN /\ RunLoop(c, KeepStatus(positionStatuses, cur(c), activeBinId[c]),
                        positions[c], idx[c] + 1, activeBinId[c], alertsOut,
                        [alertsBack EXCEPT ![cur(c)] = Saturate(@)])
             /\ UNCHANGED err
        ELSE /\ CatchCheck(c, "alert")
             /\ UNCHANGED <<positionStatuses, ghostVars>>
    /\ UNCHANGED <<variant, isRebalancing, rebalanceVars, otherVars>>

\* the back-in-range alert of line 538 (88) returns; lines 539, 542-543
SendBackInRangeReturn(c, F) ==
    /\ pc[c] = "sendBackInRange"
    /\ \E ok \in May("alert", F) :
        IF ok
        THEN /\ RunLoop(c, MapSet(positionStatuses, cur(c),
                                  [isInRange |-> isInRangeOf(cur(c), activeBinId[c]),
                                   lastNotified |-> FALSE]),
                        positions[c], idx[c] + 1, activeBinId[c], alertsOut,
                        [alertsBack EXCEPT ![cur(c)] = Saturate(@)])
             /\ UNCHANGED err
        ELSE /\ CatchCheck(c, "alert")
             /\ UNCHANGED <<positionStatuses, ghostVars>>
    /\ UNCHANGED <<variant, isRebalancing, rebalanceVars, otherVars>>

\* the error alert of line 548 (98) returns: checkPositions returns, or
\* rejects when the send itself throws
SendErrorReturn(c, F) ==
    /\ pc[c] = "sendError"
    /\ \E ok \in May("report", F) :
        IF ok THEN /\ Goto(c, "idle")
                   /\ err' = [err EXCEPT ![c] = "none"]
              ELSE /\ Goto(c, "rejected")
                   /\ UNCHANGED err
    /\ UNCHANGED <<variant, isRebalancing, positionStatuses, positions, idx,
                   activeBinId, rebalanceVars, ghostVars, otherVars>>

(***************************************************************************)
(* The planner of rebalancePosition, lines 434-461, on BN integers          *)
(* (div truncates; all operands are non-negative).                         *)
(***************************************************************************)
PriceScale == 1000000

\* line 435: floor(price * 1e6) of the price num/den
PriceBN(p) == (p[1] * PriceScale) \div p[2]

xValueOf(x) == x
yValueOf(y, priceBN) == (y * priceBN) \div PriceScale
targetValueOf(totalValue) == totalValue \div 2

\* a plausible slip: gte for gt at line 447
SellsXOnTie(xValue, yValue) == xValue >= yValue

\* line 447
SellsX(xValue, yValue) == xValue > yValue

\* lines 448, 451
SwapAmountOf(balance) == balance \div 2

\* line 456
MinSwapThreshold(totalValue) == totalValue \div 100

\* a plausible slip: the threshold test of line 459 is missing
ShouldSwapAnyValue(swapAmount, valueToCheck, minSwapThreshold) ==
    swapAmount > 0

\* line 459
ShouldSwap(swapAmount, valueToCheck, minSwapThreshold) ==
    swapAmount > 0 /\ valueToCheck > minSwapThreshold

RebalancePlan(x, y, priceBN) ==
    LET xValue == xValueOf(x)
        yValue == yValueOf(y, priceBN)
        totalValue == xValue + yValue
        swapYToX == ~SellsX(xValue, yValue)
        swapAmount == IF swapYToX THEN SwapAmountOf(y) ELSE SwapAmountOf(x)
        valueToCheck == IF swapYToX THEN yValue ELSE xValue
    IN  [planned |-> TRUE,
         swapYToX |-> swapYToX,
         swapAmount |-> swapAmount,
         targetValue |-> targetValueOf(totalValue),
         swaps |-> IF ShouldSwap(swapAmount, valueToCheck,
                                 MinSwapThreshold(totalValue))
                   THEN 1 ELSE 0]

NoPlan == [planned |-> FALSE, swapYToX |-> FALSE, swapAmount |-> 0,
           targetValue |-> 0, swaps |-> 0]

\* balances and prices the pipeline may read
BalanceSamples == {0, 1, 4}
PriceSamples == {<<1, 1>>, <<1, 4000000>>}

(***************************************************************************)
(* rebalancePosition, lines 413-494, with swap (262-327),                  *)
(* createNewPosition (329-374) and removePositionLiquidity (376-411).      *)
(***************************************************************************)
\* line 487: the catch of rebalancePosition takes over with error e
CatchRebalance(c, e) ==
    /\ Goto(c, "sendRebalanceFailed")
    /\ err' = [err EXCEPT ![c] = e]

\* a plausible slip: the lock is released at the end of the try block
\* instead of in a finally
FinallyOnSuccess(thrown) == isRebalancing' = (thrown /\ isRebalancing)

\* lines 491-493, the finally of rebalancePosition: it runs whether the try
\* block has thrown or not
Finally(thrown) == isRebalancing' = FALSE

\* a plausible slip: a skipped rebalance leaves the position not notified,
\* for the next poll to try again
SendSkipReturnForgets(c, F) ==
    /\ pc[c] = "sendSkip"
    /\ \E ok \in May("send", F) :
        IF ok
        THEN /\ MarkNotifiedForgets(c, alertsOut)
             /\ UNCHANGED err
        ELSE /\ CatchCheck(c, "sendSkip")
             /\ UNCHANGED <<positionStatuses, ghostVars>>
    /\ UNCHANGED <<variant, isRebalancing, rebalanceVars, otherVars>>

\* line 415: the skip notification returns; rebalancePosition returns at 416
SendSkipReturn(c, F) ==
    /\ pc[c] = "sendSkip"
    /\ \E ok \in May("send", F) :
        IF ok
        THEN /\ MarkNotified(c, alertsOut)
             /\ UNCHANGED err
        ELSE /\ CatchCheck(c, "sendSkip")
             /\ UNCHANGED <<positionStatuses, ghostVars>>
    /\ UNCHANGED <<variant, isRebalancing, rebalanceVars, otherVars>>

\* line 421
SendStartReturn(c, F) ==
    /\ pc[c] = "sendStart"
    /\ \E ok \in May("send", F) :
        IF ok THEN Goto(c, "removeLiquidity") /\ UNCHANGED err
              ELSE CatchRebalance(c, "send")
    /\ UNCHANGED <<variant, isRebalancing, positionStatuses, loopVars,
                   rebalanceVars, ghostVars, otherVars>>

\* line 380: dlmm.removeLiquidity returns its transactions (389)
RemoveLiquidityReturn(c, F) ==
    /\ pc[c] = "removeLiquidity"
    /\ \E ok \in May("remove", F) :
        IF ok
        THEN /\ \E n \in 1..MaxTxs : txsLeft' = [txsLeft EXCEPT ![c] = n]
             /\ Goto(c, "sendAndConfirmRemove")
             /\ UNCHANGED err
        ELSE /\ CatchRebalance(c, "remove")
             /\ UNCHANGED txsLeft
    /\ UNCHANGED <<variant, isRebalancing, positionStatuses, loopVars,
                   xBalance, yBalance, ghostVars, otherVars>>

\* line 393: a failed submission leaves the loop for the catch of line 404
SendAndConfirmRemoveReturn(c, F) ==
    /\ pc[c] = "sendAndConfirmRemove"
    /\ \E ok \in May("tx", F) :
        IF ok THEN Goto(c, "sendRemoved") /\ UNCHANGED <<err, txsLeft>>
              ELSE /\ Goto(c, "sendRemoveFailed")
                   /\ err' = [err EXCEPT ![c] = "tx"]
                   /\ txsLeft' = [txsLeft EXCEPT ![c] = @ - 1]
    /\ UNCHANGED <<variant, isRebalancing, positionStatuses, loopVars,
                   xBalance, yBalance, ghostVars, otherVars>>

\* line 399: the next transaction, or the return to line 426; a send that
\* throws is caught at line 404 like a failed submission
SendRemovedReturn(c, F) ==
    /\ pc[c] = "sendRemoved"
    /\ \E ok \in May("send", F) :
        IF ok
        THEN /\ txsLeft' = [txsLeft EXCEPT ![c] = @ - 1]
             /\ Goto(c, IF txsLeft[c] > 1 THEN "sendAndConfirmRemove"
                                         ELSE "getTokenBalances")
             /\ UNCHANGED err
        ELSE /\ Goto(c, "sendRemoveFailed")
             /\ err' = [err EXCEPT ![c] = "send"]
             /\ txsLeft' = [txsLeft EXCEPT ![c] = @ - 1]
    /\ UNCHANGED <<variant, isRebalancing, positionStatuses, loopVars,
                   xBalance, yBalance, ghostVars, otherVars>>

\* line 405: removePositionLiquidity returns normally after its catch, the
\* transactions it has left unsubmitted; a send that throws here leaves it
SendRemoveFailedReturn(c, F) ==
    /\ pc[c] = "sendRemoveFailed"
    /\ \E ok \in May("send", F) :
        IF ok THEN /\ Goto(c, "getTokenBalances")
                   /\ err' = [err EXCEPT ![c] = "none"]
              ELSE CatchRebalance(c, "send")
    /\ txsLeft' = [txsLeft EXCEPT ![c] = 0]
    /\ UNCHANGED <<variant, isRebalancing, positionStatuses, loopVars,
                   xBalance, yBalance, ghostVars, otherVars>>

\* line 426 (getTokenBalances, 237-260: reads only)
GetTokenBalancesReturn(c, F) ==
    /\ pc[c] = "getTokenBalances"
    /\ \E ok \in May("balance", F) :
        IF ok
        THEN /\ \E x \in BalanceSamples, y \in BalanceSamples :
                    /\ xBalance' = [xBalance EXCEPT ![c] = x]
                    /\ yBalance' = [yBalance EXCEPT ![c] = y]
             /\ Goto(c, "getPrice")
             /\ UNCHANGED err
        ELSE /\ CatchRebalance(c, "balance")
             /\ UNCHANGED <<xBalance, yBalance>>
    /\ UNCHANGED <<variant, isRebalancing, positionStatuses, loopVars,
                   txsLeft, ghostVars, otherVars>>

\* a plausible slip: the wait of line 465 is inside the if of line 459, so
\* that a run that plans no swap goes straight to the final balances
GetPriceReturnSkipsWait(c, F) ==
    /\ pc[c] = "getPrice"
    /\ \E ok \in May("price", F) :
        IF ok
        THEN /\ \E p \in PriceSamples :
                    Goto(c, IF RebalancePlan(xBalance[c], yBalance[c],
                                             PriceBN(p)).swaps = 1
                            THEN "getRoutes" ELSE "getFinalBalances")
             /\ UNCHANGED err
        ELSE CatchRebalance(c, "price")
    /\ xBalance' = [xBalance EXCEPT ![c] = 0]
    /\ yBalance' = [yBalance EXCEPT ![c] = 0]
    /\ UNCHANGED <<variant, isRebalancing, positionStatuses, loopVars,
                   txsLeft, ghostVars, otherVars>>

\* lines 429-465: the price, the plan, and the swap or the settle wait
GetPriceReturn(c, F) ==
    /\ pc[c] = "getPrice"
    /\ \E ok \in May("price", F) :
        IF ok
        THEN /\ \E p \in PriceSamples :
                    Goto(c, IF RebalancePlan(xBalance[c], yBalance[c],
                                             PriceBN(p)).swaps = 1
                            THEN "getRoutes" ELSE "settle")
             /\ UNCHANGED err
        ELSE CatchRebalance(c, "price")
    /\ xBalance' = [xBalance EXCEPT ![c] = 0]
    /\ yBalance' = [yBalance EXCEPT ![c] = 0]
    /\ UNCHANGED <<variant, isRebalancing, positionStatuses, loopVars,
                   txsLeft, ghostVars, otherVars>>

\* swap, lines 279-295: the routes, or none
GetRoutesReturn(c, F) ==
    /\ pc[c] = "getRoutes"
    /\ \E ok \in May("route", F) :
        IF ok THEN Goto(c, "sendExecuting") /\ UNCHANGED err
              ELSE /\ Goto(c, "sendSwapFailed")
                   /\ err' = [err EXCEPT ![c] = "route"]
    /\ UNCHANGED <<variant, isRebalancing, positionStatuses, loopVars,
                   rebalanceVars, ghostVars, otherVars>>
\* line 298
SendExecutingReturn(c, F) ==
    /\ pc[c] = "sendExecuting"
    /\ \E ok \in May("send", F) :
        IF ok THEN Goto(c, "executeRoute") /\ UNCHANGED err
              ELSE /\ Goto(c, "sendSwapFailed")
                   /\ err' = [err EXCEPT ![c] = "send"]
    /\ UNCHANGED <<variant, isRebalancing, positionStatuses, loopVars,
                   rebalanceVars, ghostVars, otherVars>>
\* line 306
ExecuteRouteReturn(c, F) ==
    /\ pc[c] = "executeRoute"
    /\ \E ok \in May("exec", F) :
        IF ok THEN Goto(c, "sendSwapCompleted") /\ UNCHANGED err
              ELSE /\ Goto(c, "sendSwapFailed")
                   /\ err' = [err EXCEPT ![c] = "exec"]
    /\ UNCHANGED <<variant, isRebalancing, positionStatuses, loopVars,
                   rebalanceVars, ghostVars, otherVars>>
\* line 315, then the return to line 465
SendSwapCompletedReturn(c, F) ==
    /\ pc[c] = "sendSwapCompleted"
    /\ \E ok \in May("send", F) :
        IF ok THEN Goto(c, "settle") /\ UNCHANGED err
              ELSE /\ Goto(c, "sendSwapFailed")
                   /\ err' = [err EXCEPT ![c] = "send"]
    /\ UNCHANGED <<variant, isRebalancing, positionStatuses, loopVars,
                   rebalanceVars, ghostVars, otherVars>>
\* a plausible slip: the catch of swap reports the error without the throw
\* of line 325
SendSwapFailedSwallows(c, F) ==
    /\ pc[c] = "sendSwapFailed"
    /\ \E ok \in May("send", F) :
        IF ok THEN Goto(c, "settle") /\ err' = [err EXCEPT ![c] = "none"]
              ELSE CatchRebalance(c, "send")
    /\ UNCHANGED <<variant, isRebalancing, positionStatuses, loopVars,
                   rebalanceVars, ghostVars, otherVars>>

\* lines 324-325: swap rethrows, or throws the error of its own send
SendSwapFailedReturn(c, F) ==
    /\ pc[c] = "sendSwapFailed"
    /\ \E ok \in May("send", F) :
        CatchRebalance(c, IF ok THEN err[c] ELSE "send")
    /\ UNCHANGED <<variant, isRebalancing, positionStatuses, loopVars,
                   rebalanceVars, ghostVars, otherVars>>

\* line 465: the 50 s wait ends
SettleReturn(c) ==
    /\ pc[c] = "settle"
    /\ Goto(c, "getFinalBalances")
    /\ UNCHANGED <<variant, isRebalancing, positionStatuses, loopVars, err,
                   rebalanceVars, ghostVars, otherVars>>

\* line 468
GetFinalBalancesReturn(c, F) ==
    /\ pc[c] = "getFinalBalances"
    /\ \E ok \in May("balance", F) :
        IF ok THEN Goto(c, "createGetActiveBin") /\ UNCHANGED err
              ELSE /\ Goto(c, "sendRebalanceFailed")
                   /\ err' = [err EXCEPT ![c] = "balance"]
    /\ UNCHANGED <<variant, isRebalancing, positionStatuses, loopVars,
                   rebalanceVars, ghostVars, otherVars>>
\* createNewPosition, line 332
CreateGetActiveBinReturn(c, F) ==
    /\ pc[c] = "createGetActiveBin"
    /\ \E ok \in May("deposit", F) :
        IF ok THEN Goto(c, "initializePosition") /\ UNCHANGED err
              ELSE /\ Goto(c, "sendRebalanceFailed")
                   /\ err' = [err EXCEPT ![c] = "deposit"]
    /\ UNCHANGED <<variant, isRebalancing, positionStatuses, loopVars,
                   rebalanceVars, ghostVars, otherVars>>
\* line 340
InitializePositionReturn(c, F) ==
    /\ pc[c] = "initializePosition"
    /\ \E ok \in May("deposit", F) :
        IF ok THEN Goto(c, "sendAndConfirmCreate") /\ UNCHANGED err
              ELSE /\ Goto(c, "sendRebalanceFailed")
                   /\ err' = [err EXCEPT ![c] = "deposit"]
    /\ UNCHANGED <<variant, isRebalancing, positionStatuses, loopVars,
                   rebalanceVars, ghostVars, otherVars>>
\* line 354
SendAndConfirmCreateReturn(c, F) ==
    /\ pc[c] = "sendAndConfirmCreate"
    /\ \E ok \in May("deposit", F) :
        IF ok THEN Goto(c, "sendCreated") /\ UNCHANGED err
              ELSE /\ Goto(c, "sendCreateFailed")
                   /\ err' = [err EXCEPT ![c] = "deposit"]
    /\ UNCHANGED <<variant, isRebalancing, positionStatuses, loopVars,
                   rebalanceVars, ghostVars, otherVars>>
\* line 360, then the return to line 485
SendCreatedReturn(c, F) ==
    /\ pc[c] = "sendCreated"
    /\ \E ok \in May("send", F) :
        IF ok THEN Goto(c, "sendCompleted") /\ UNCHANGED err
              ELSE /\ Goto(c, "sendCreateFailed")
                   /\ err' = [err EXCEPT ![c] = "send"]
    /\ UNCHANGED <<variant, isRebalancing, positionStatuses, loopVars,
                   rebalanceVars, ghostVars, otherVars>>
\* lines 371-372
SendCreateFailedReturn(c, F) ==
    /\ pc[c] = "sendCreateFailed"
    /\ \E ok \in May("send", F) :
        CatchRebalance(c, IF ok THEN err[c] ELSE "send")
    /\ UNCHANGED <<variant, isRebalancing, positionStatuses, loopVars,
                   rebalanceVars, ghostVars, otherVars>>

\* line 485, then the finally and the return to checkPositions (534, 542-543)
SendCompletedReturn(c, F) ==
    /\ pc[c] = "sendCompleted"
    /\ \E ok \in May("send", F) :
        IF ok
        THEN /\ Finally(FALSE)
             /\ MarkNotified(c, alertsOut)
             /\ UNCHANGED err
        ELSE /\ CatchRebalance(c, "send")
             /\ UNCHANGED <<isRebalancing, positionStatuses, loopVars, ghostVars>>
    /\ UNCHANGED <<variant, rebalanceVars, otherVars>>

\* lines 489-492: the failure message returns or throws, the finally runs,
\* and the error reaches the catch of checkPositions (545)
SendRebalanceFailedReturn(c, F) ==
    /\ pc[c] = "sendRebalanceFailed"
    /\ \E ok \in May("send", F) :
        CatchCheck(c, IF ok THEN err[c] ELSE "send")
    /\ Finally(TRUE)
    /\ UNCHANGED <<variant, positionStatuses, rebalanceVars, ghostVars,
                   otherVars>>

(***************************************************************************)
(* The planner alone: Init draws the balances and the price, PlanStep      *)
(* applies lines 434-461 to them.                                          *)
(***************************************************************************)
\* TLC's integers are 32 bits wide where BN is unbounded: the inputs keep
\* yBalance * priceBN below 2^31
XBalances == (0..MaxBalance) \cup {1000}
YBalances == (0..MaxBalance) \cup {400}
Prices == {<<n, d>> : n \in 0..MaxPriceNum, d \in {1, 2, 3, 4000000}}

PlanStep ==
    /\ ~plan.planned
    /\ plan' = RebalancePlan(inX, inY, PriceBN(inPrice))
    /\ UNCHANGED <<variant, isRebalancing, positionStatuses, cycleVars,
                   ghostVars, inX, inY, inPrice, statusVars, depositVars>>

(***************************************************************************)
(* The deposit alone: what rebalancePosition (lines 468-483) and           *)
(* createNewPosition (lines 331-351) ask the pool to deposit, as a         *)
(* function of the final balances and of the active bin read at line 332.  *)
(***************************************************************************)
\* line 471: new BN(0.07 * 1e9); BN keeps the integer part of the double
ReservedSol == 70000000

\* line 331
TotalIntervalRange == 5

\* lines 472-474
SolToDeposit(finalYBalance) ==
    IF finalYBalance > ReservedSol THEN finalYBalance - ReservedSol ELSE 0

\* a plausible slip: the fallback of line 337 is taken for a zero amount
TotalYAmountZeroFalsy(yAmount) == IF yAmount = 0 THEN 100000000 ELSE yAmount

\* lines 336-337: a BN object is truthy whatever its value, so the
\* fallbacks after || are never taken
TotalXAmount(xAmount) == xAmount
TotalYAmount(yAmount) == yAmount

\* lines 332-351, called at line 483
DepositOf(finalXBalance, finalYBalance, binId) ==
    [made |-> TRUE,
     totalXAmount |-> TotalXAmount(finalXBalance),
     totalYAmount |-> TotalYAmount(SolToDeposit(finalYBalance)),
     minBinId |-> binId - TotalIntervalRange,
     maxBinId |-> binId + TotalIntervalRange]

NoDeposit == [made |-> FALSE, totalXAmount |-> 0, totalYAmount |-> 0,
              minBinId |-> 0, maxBinId |-> 0]

\* final balances around the reserve, and bin ids of either sign
FinalXBalances == {0, MaxBalance}
FinalYBalances ==
    (0..MaxBalance) \cup {ReservedSol + d : d \in (0 - MaxBalance)..MaxBalance}
DepositBins == (0 - NumBins)..NumBins

DepositStep ==
    /\ ~deposit.made
    /\ deposit' = DepositOf(inFinalX, inFinalY, inDepositBin)
    /\ UNCHANGED <<variant, isRebalancing, positionStatuses, cycleVars,
                   ghostVars, plannerVars, statusVars, inFinalX, inFinalY,
                   inDepositBin>>

(***************************************************************************)
(* The status command, lines 583-598 (150-165): a Telegraf handler that    *)
(* runs whenever the operator sends /status, whatever the check cycles are *)
(* doing.  ctx.reply is not awaited.  A query that rejects ends the        *)
(* handler without a reply.                                                *)
(***************************************************************************)
NoReply == [activeBin |-> 0, lines |-> <<>>]

\* a plausible slip: the command reports the classification checkPositions
\* stored
StatusIsInRangeStored(k, bin) == GetStatus(positionStatuses, k).isInRange

\* lines 590-591
StatusIsInRange(k, bin) == lowerBinId(k) <= bin /\ bin <= upperBinId(k)

\* lines 587-594: the message
StatusMessage(ps, bin) ==
    [activeBin |-> bin,
     lines |-> [n \in 1..Len(ps) |->
                   [position |-> ps[n],
                    inRange |-> StatusIsInRange(ps[n], bin),
                    lower |-> lowerBinId(ps[n]),
                    upper |-> upperBinId(ps[n])]]]

\* line 583: the handler runs to the await of line 584
StatusStart ==
    /\ statusPc = "idle"
    /\ statusPc' = "getPositions"
    /\ statusReply' = NoReply
    /\ UNCHANGED <<variant, isRebalancing, positionStatuses, cycleVars,
                   ghostVars, plannerVars, depositVars, statusPositions>>

\* line 584
StatusGetPositionsReturn(F) ==
    /\ statusPc = "getPositions"
    /\ \E ok \in May("query", F) :
        IF ok
        THEN /\ \E ps \in PositionLists : statusPositions' = ps
             /\ statusPc' = "getActiveBin"
        ELSE /\ statusPc' = "idle"
             /\ UNCHANGED statusPositions
    /\ UNCHANGED <<variant, isRebalancing, positionStatuses, cycleVars,
                   ghostVars, plannerVars, depositVars, statusReply>>

\* lines 585-597
StatusGetActiveBinReturn(F) ==
    /\ statusPc = "getActiveBin"
    /\ \E ok \in May("query", F) :
        IF ok
        THEN \E bin \in Bins : statusReply' = StatusMessage(statusPositions, bin)
        ELSE UNCHANGED statusReply
    /\ statusPc' = "idle"
    /\ statusPositions' = <<>>
    /\ UNCHANGED <<variant, isRebalancing, positionStatuses, cycleVars,
                   ghostVars, plannerVars, depositVars>>

(***************************************************************************)
(* Specifications.                                                         *)
(***************************************************************************)
EmptyMap == [k \in {} |-> DefaultStatus]

InitCycles ==
    /\ isRebalancing = FALSE
    /\ positionStatuses = EmptyMap
    /\ pc = [c \in Cycles |-> "idle"]
    /\ positions = [c \in Cycles |-> <<>>]
    /\ idx = [c \in Cycles |-> 0]
    /\ activeBinId = [c \in Cycles |-> 0]
    /\ err = [c \in Cycles |-> "none"]
    /\ txsLeft = [c \in Cycles |-> 0]
    /\ xBalance = [c \in Cycles |-> 0]
    /\ yBalance = [c \in Cycles |-> 0]
    /\ alertsOut = [k \in Keys |-> 0]
    /\ alertsBack = [k \in Keys |-> 0]
    /\ statusPc = "idle"
    /\ statusPositions = <<>>
    /\ statusReply = NoReply

Init ==
    /\ variant \in {"bot", "monitor"}
    /\ InitCycles
    /\ inX = 0 /\ inY = 0 /\ inPrice = <<1, 1>>
    /\ plan = NoPlan
    /\ inFinalX = 0 /\ inFinalY = 0 /\ inDepositBin = 0
    /\ deposit = NoDeposit

Step(c, F) ==
    \/ CycleStart(c)
    \/ GetPositionsReturn(c, F)
    \/ GetActiveBinReturn(c, F)
    \/ SendOutOfRangeReturn(c, F)
    \/ SendBackInRangeReturn(c, F)
    \/ SendErrorReturn(c, F)
    \/ SendSkipReturn(c, F)
    \/ SendStartReturn(c, F)
    \/ RemoveLiquidityReturn(c, F)
    \/ SendAndConfirmRemoveReturn(c, F)
    \/ SendRemovedReturn(c, F)
    \/ SendRemoveFailedReturn(c, F)
    \/ GetTokenBalancesReturn(c, F)
    \/ GetPriceReturn(c, F)
    \/ GetRoutesReturn(c, F)
    \/ SendExecutingReturn(c, F)
    \/ ExecuteRouteReturn(c, F)
    \/ SendSwapCompletedReturn(c, F)
    \/ SendSwapFailedReturn(c, F)
    \/ SettleReturn(c)
    \/ GetFinalBalancesReturn(c, F)
    \/ CreateGetActiveBinReturn(c, F)
    \/ InitializePositionReturn(c, F)
    \/ SendAndConfirmCreateReturn(c, F)
    \/ SendCreatedReturn(c, F)
    \/ SendCreateFailedReturn(c, F)
    \/ SendCompletedReturn(c, F)
    \/ SendRebalanceFailedReturn(c, F)

\* overlapping cycles, every fault
Next == \E c \in Cycles : Step(c, AllFaults)

Spec == Init /\ [][Next]_vars

InitPlanner ==
    /\ variant = "bot"
    /\ InitCycles
    /\ inX \in XBalances /\ inY \in YBalances /\ inPrice \in Prices
    /\ plan = NoPlan
    /\ inFinalX = 0 /\ inFinalY = 0 /\ inDepositBin = 0
    /\ deposit = NoDeposit

NextPlanner == PlanStep

SpecPlanner == InitPlanner /\ [][NextPlanner]_vars

InitDeposit ==
    /\ variant = "bot"
    /\ InitCycles
    /\ inX = 0 /\ inY = 0 /\ inPrice = <<1, 1>>
    /\ plan = NoPlan
    /\ inFinalX \in FinalXBalances /\ inFinalY \in FinalYBalances
    /\ inDepositBin \in DepositBins
    /\ deposit = NoDeposit

NextDeposit == DepositStep

SpecDeposit == InitDeposit /\ [][NextDeposit]_vars

\* check cycles that do not overlap and whose rebalances complete: one
\* cycle at a time; the queries and the alerts of checkPositions may fail,
\* and so may a withdraw transaction (removePositionLiquidity swallows it)
SeqFaults == {"query", "alert", "report", "tx"}

NextSeq ==
    \/ CycleStart(1)
    \/ GetPositionsReturn(1, SeqFaults)
    \/ GetActiveBinReturn(1, SeqFaults)
    \/ SendOutOfRangeReturn(1, SeqFaults)
    \/ SendBackInRangeReturn(1, SeqFaults)
    \/ SendErrorReturn(1, SeqFaults)
    \/ SendStartReturn(1, SeqFaults)
    \/ RemoveLiquidityReturn(1, SeqFaults)
    \/ SendAndConfirmRemoveReturn(1, SeqFaults)
    \/ SendRemovedReturn(1, SeqFaults)
    \/ SendRemoveFailedReturn(1, SeqFaults)
    \/ GetTokenBalancesReturn(1, SeqFaults)
    \/ GetPriceReturn(1, SeqFaults)
    \/ GetRoutesReturn(1, SeqFaults)
    \/ SendExecutingReturn(1, SeqFaults)
    \/ ExecuteRouteReturn(1, SeqFaults)
    \/ SendSwapCompletedReturn(1, SeqFaults)
    \/ SettleReturn(1)
    \/ GetFinalBalancesReturn(1, SeqFaults)
    \/ CreateGetActiveBinReturn(1, SeqFaults)
    \/ InitializePositionReturn(1, SeqFaults)
    \/ SendAndConfirmCreateReturn(1, SeqFaults)
    \/ SendCreatedReturn(1, SeqFaults)
    \/ SendCompletedReturn(1, SeqFaults)

SpecSeq == Init /\ [][NextSeq]_vars

\* overlapping cycles whose notifications are all delivered: every call
\* may reject but sendMessage
DeliveredFaults == AllFaults \ {"alert", "report", "send"}

NextDelivered == \E c \in Cycles : Step(c, DeliveredFaults)

SpecDelivered == Init /\ [][NextDelivered]_vars

\* the status command against a check cycle that may fail anywhere (alone,
\* a cycle never finds the lock held)
NextStatus ==
    \/ CycleStart(1)
    \/ GetPositionsReturn(1, AllFaults)
    \/ GetActiveBinReturn(1, AllFaults)
    \/ SendOutOfRangeReturn(1, AllFaults)
    \/ SendBackInRangeReturn(1, AllFaults)
    \/ SendErrorReturn(1, AllFaults)
    \/ SendStartReturn(1, AllFaults)
    \/ RemoveLiquidityReturn(1, AllFaults)
    \/ SendAndConfirmRemoveReturn(1, AllFaults)
    \/ SendRemovedReturn(1, AllFaults)
    \/ SendRemoveFailedReturn(1, AllFaults)
    \/ GetTokenBalancesReturn(1, AllFaults)
    \/ GetPriceReturn(1, AllFaults)
    \/ GetRoutesReturn(1, AllFaults)
    \/ SendExecutingReturn(1, AllFaults)
    \/ ExecuteRouteReturn(1, AllFaults)
    \/ SendSwapCompletedReturn(1, AllFaults)
    \/ SendSwapFailedReturn(1, AllFaults)
    \/ SettleReturn(1)
    \/ GetFinalBalancesReturn(1, AllFaults)
    \/ CreateGetActiveBinReturn(1, AllFaults)
    \/ InitializePositionReturn(1, AllFaults)
    \/ SendAndConfirmCreateReturn(1, AllFaults)
    \/ SendCreatedReturn(1, AllFaults)
    \/ SendCreateFailedReturn(1, AllFaults)
    \/ SendCompletedReturn(1, AllFaults)
    \/ SendRebalanceFailedReturn(1, AllFaults)
    \/ StatusStart
    \/ StatusGetPositionsReturn(AllFaults)
    \/ StatusGetActiveBinReturn(AllFaults)

SpecStatus == Init /\ [][NextStatus]_vars

(***************************************************************************)
(* Properties.                                                             *)
(***************************************************************************)
\* the awaits of rebalancePosition between line 419 and the finally
WithdrawingPcs == {"removeLiquidity", "sendAndConfirmRemove", "sendRemoved",
                   "sendRemoveFailed"}
SwappingPcs == {"getTokenBalances", "getPrice", "getRoutes", "sendExecuting",
                "executeRoute", "sendSwapCompleted", "sendSwapFailed"}
SettlingPcs == {"settle"}
DepositingPcs == {"getFinalBalances", "createGetActiveBin", "initializePosition",
                  "sendAndConfirmCreate", "sendCreated", "sendCreateFailed"}
StagePcs == WithdrawingPcs \cup SwappingPcs \cup SettlingPcs \cup DepositingPcs
LockedPcs == StagePcs \cup {"sendStart", "sendCompleted", "sendRebalanceFailed"}

\* the invocations of rebalancePosition that hold the lock
Holders == {c \in Cycles : pc[c] \in LockedPcs}

\* C1: under any interleaving of check cycles at most one invocation of
\* rebalancePosition is between acquiring the lock and releasing it; no
\* state has two invocations in the Withdrawing, Swapping, Settling or
\* Depositing stage.
C1_MutualExclusion == Cardinality(Holders) <= 1

\* one invocation is executing the swap while an overlapping cycle has
\* called rebalancePosition and was turned away
C1_Witness ==
    \E c, d \in Cycles : pc[c] = "executeRoute" /\ pc[d] = "sendSkip"

\* C2: the lock is never held with no invocation of rebalancePosition in
\* flight: whatever an invocation that acquired it fails at (the start
\* notification, the removal, a balance or price query, the swap, the
\* deposit), isRebalancing is false once it has returned or thrown.
C2_LockReleased == isRebalancing => Holders # {}

\* an invocation has thrown out of the swap and the lock is free again
C2_Witness ==
    \E c \in Cycles : pc[c] = "sendError" /\ err[c] = "exec" /\ ~isRebalancing

\* C3: an invocation of rebalancePosition that finds the lock held sends its
\* skip notification and returns without throwing, enters no stage of the
\* pipeline and leaves isRebalancing as it is.
C3_SkipReturns ==
    [][\A c \in Cycles :
          (pc[c] = "sendSkip" /\ pc'[c] # "sendSkip")
              => /\ pc'[c] \notin LockedPcs \cup {"sendError", "rejected"}
                 /\ isRebalancing' = isRebalancing]_vars

\* the stored classification of a key (in range until first stored)
Stored(k) == GetStatus(positionStatuses, k)
Tracked(k) == k \in DOMAIN positionStatuses

\* C4: with check cycles that do not overlap and whose rebalances complete,
\* at most one out-of-range alert is sent per contiguous run of
\* out-of-range observations of a position and at most one back-in-range
\* alert per return to range; a poll whose observation repeats the stored
\* classification of the position sends no alert.
C4_EdgeTriggered ==
    /\ \A k \in Keys : alertsOut[k] <= 1 /\ alertsBack[k] <= 1
    /\ \A c \in Cycles :
          /\ pc[c] = "sendOutOfRange" => Stored(cur(c)).isInRange
          /\ pc[c] = "sendBackInRange" => ~Stored(cur(c)).isInRange

\* the alert of the current out-of-range streak of p1 was sent, its
\* rebalance completed, and a later poll of p1 is under way
C4_Witness ==
    /\ alertsOut["p1"] = 1
    /\ Tracked("p1") /\ positionStatuses["p1"].lastNotified
    /\ pc[1] = "getActiveBin" /\ positions[1] = <<"p1">>

\* C5 as the spec states it: a position already out of range the first time
\* it is observed (it has no stored status) causes no out-of-range alert on
\* that poll.
C5_NoAlertOnFirstPoll ==
    \A c \in Cycles : pc[c] = "sendOutOfRange" => Tracked(cur(c))

\* C5 as amended: the out-of-range alert of such a position is sent on that
\* first poll.  Its status is first stored, as out-of-range, with
\* lastNotified = TRUE by the poll that sent the alert, and no position is
\* ever stored as out-of-range with lastNotified = FALSE.
C5_AlertOnFirstPoll ==
    [][\A k \in Keys :
          /\ (k \in DOMAIN positionStatuses' /\ ~positionStatuses'[k].isInRange)
                => positionStatuses'[k].lastNotified
          /\ (~Tracked(k) /\ k \in DOMAIN positionStatuses'
                          /\ ~positionStatuses'[k].isInRange)
                => /\ alertsOut'[k] >= 1
                   /\ \E c \in Cycles :
                         /\ pc[c] \in {"sendOutOfRange", "sendSkip", "sendCompleted"}
                         /\ cur(c) = k
                         /\ <<pc'[c], idx'[c]>> # <<pc[c], idx[c]>>]_vars

\* the first poll of p1 found it out of range, its alert is out and its
\* rebalance is about to return: nothing is stored for p1 yet
C5_Witness ==
    \E c \in Cycles :
        /\ pc[c] = "sendCompleted" /\ cur(c) = "p1"
        /\ ~Tracked("p1") /\ alertsOut["p1"] = 1

\* C6: in every step, lastNotified of a position goes from false (or no
\* stored status) to true only when the stored isInRange was true (or there
\* was no stored status) and the observation stored with it is out of
\* range; it goes from true to false only when the stored isInRange was
\* false and the observation stored with it is in range.
C6_NotifiedEdges ==
    [][\A k \in Keys :
          k \in DOMAIN positionStatuses' =>
              /\ (~Stored(k).lastNotified /\ positionStatuses'[k].lastNotified)
                    => Stored(k).isInRange /\ ~positionStatuses'[k].isInRange
              /\ (Stored(k).lastNotified /\ ~positionStatuses'[k].lastNotified)
                    => ~Stored(k).isInRange /\ positionStatuses'[k].isInRange]_vars

\* p1 went out of range and came back: lastNotified has made both changes
C6_Witness ==
    /\ alertsBack["p1"] = 1
    /\ Tracked("p1") /\ ~positionStatuses["p1"].lastNotified

\* C7: a cycle that observes in range a position whose lastNotified is true
\* sends the back-in-range message, stores lastNotified = FALSE and
\* isInRange = TRUE for it, and does not call rebalancePosition.
C7_BackInRange ==
    [][\A c \in Cycles :
          (pc[c] = "sendBackInRange" /\ <<pc'[c], idx'[c]>> # <<pc[c], idx[c]>>)
              => /\ alertsBack'[cur(c)] >= 1
                 /\ cur(c) \in DOMAIN positionStatuses'
                 /\ positionStatuses'[cur(c)] =
                        [isInRange |-> TRUE, lastNotified |-> FALSE]
                 /\ pc'[c] \notin LockedPcs \cup {"sendSkip"}]_vars

\* C8: a cycle whose position or active-bin query fails evaluates no
\* position, sends one error alert and returns, the map and the lock
\* untouched by it.
C8_QueryFailure ==
    [][\A c \in Cycles :
          /\ (pc[c] \in {"getPositions", "getActiveBin"} /\ pc'[c] = "sendError")
                => UNCHANGED <<positionStatuses, isRebalancing>>
          /\ (pc[c] = "sendError" /\ err[c] = "query" /\ pc'[c] # pc[c])
                => /\ pc'[c] = "idle"
                   /\ UNCHANGED <<positionStatuses, isRebalancing>>]_vars

(***************************************************************************)
(* The planner's claims restate lines 434-461 on the inputs.               *)
(***************************************************************************)
inPriceBN == (inPrice[1] * 1000000) \div inPrice[2]
inXValue == inX
inYValue == (inY * inPriceBN) \div 1000000
inSellsX == inXValue > inYValue
inSellValue == IF inSellsX THEN inXValue ELSE inYValue
inSellAmount == IF inSellsX THEN inX \div 2 ELSE inY \div 2

\* C9: the plan asks for no swap iff the value of the asset chosen for sale
\* is at most totalValue / 100 or the sell amount (half the chosen balance)
\* is zero; otherwise it asks for exactly one swap.
C9_NoActionIff ==
    plan.planned =>
        /\ plan.swaps \in {0, 1}
        /\ plan.swaps = 0 <=>
              \/ inSellValue <= (inXValue + inYValue) \div 100
              \/ inSellAmount = 0

\* no swap although the sell amount is positive: the sale side is worth
\* nothing at this price
C9_Witness ==
    plan.planned /\ plan.swaps = 0 /\ inSellAmount > 0

\* C10: if xValue > yValue the planner sells X, xQuantity / 2 of it;
\* otherwise, a tie included, it sells Y, yQuantity / 2 of it.
C10_SellsLargerSide ==
    plan.planned =>
        IF inXValue > inYValue
        THEN ~plan.swapYToX /\ plan.swapAmount = inX \div 2
        ELSE plan.swapYToX /\ plan.swapAmount = inY \div 2

\* a tie of positive values: Y is sold
C10_Witness ==
    /\ plan.planned /\ plan.swaps = 1
    /\ inXValue = inYValue /\ plan.swapYToX /\ plan.swapAmount > 0

\* the values of the two assets once the planned amount is sold at priceBN
\* with no fees: the sale moves its value from one asset to the other
inTotalValue == inXValue + inYValue
inTargetValue == inTotalValue \div 2
inSoldValue ==
    IF plan.swaps = 0 THEN 0
    ELSE IF plan.swapYToX THEN (plan.swapAmount * inPriceBN) \div 1000000
    ELSE plan.swapAmount
afterXValue ==
    IF plan.swapYToX THEN inXValue + inSoldValue ELSE inXValue - inSoldValue
afterYValue ==
    IF plan.swapYToX THEN inYValue - inSoldValue ELSE inYValue + inSoldValue
Distance(a, b) == IF a >= b THEN a - b ELSE b - a

\* C11: whenever a swap is planned, selling the planned amount at the
\* reference price with no fees leaves the value of X and the value of Y
\* each at targetValue = totalValue / 2, up to the rounding of the integer
\* divisions (two units), and does not widen the gap between the two values.
C11_RestoresBalance ==
    (plan.planned /\ plan.swaps = 1) =>
        /\ Distance(afterXValue, inTargetValue) <= 2
        /\ Distance(afterYValue, inTargetValue) <= 2
        /\ Distance(afterXValue, afterYValue)
              <= Distance(inXValue, inYValue) + 2

\* C12: when the submission of a withdraw transaction fails, the failure is
\* reported by a notification and every transaction still in the list is
\* submitted after it.
C12_SiblingsSubmitted ==
    [][\A c \in Cycles :
          (pc[c] = "sendRemoveFailed" /\ err[c] = "tx"
                                      /\ pc'[c] # "sendRemoveFailed")
              => /\ pc'[c] # "sendRebalanceFailed"
                 /\ txsLeft[c] > 0
                       => /\ pc'[c] = "sendAndConfirmRemove"
                          /\ txsLeft'[c] = txsLeft[c]]_vars

\* where an invocation whose pipeline has failed may be
AbortedPcs == {"sendSwapFailed", "sendCreateFailed", "sendRebalanceFailed",
               "sendError", "rejected"}

\* C13: a swap that fails (no route, a rejected route request, a rejected
\* execution) executes no route after it, is followed by no settle wait and
\* no deposit in that run, and makes rebalancePosition throw to
\* checkPositions with the lock released; a failed deposit makes
\* rebalancePosition throw with the lock released too.
C13_SwapFailureAborts ==
    [][\A c \in Cycles :
          /\ (pc[c] = "getRoutes" /\ err'[c] = "route")
                => pc'[c] = "sendSwapFailed"
          /\ (pc[c] \in {"sendSwapFailed", "sendCreateFailed"} /\ pc'[c] # pc[c])
                => pc'[c] = "sendRebalanceFailed" /\ err'[c] # "none"
          /\ (pc[c] = "sendRebalanceFailed" /\ pc'[c] # pc[c])
                => pc'[c] = "sendError" /\ err'[c] # "none" /\ ~isRebalancing'
          /\ err'[c] \in {"route", "exec", "deposit"}
                => pc'[c] \in AbortedPcs]_vars

\* no route was found: the invocation has thrown to checkPositions and the
\* lock is free
C13_Witness ==
    \E c \in Cycles : pc[c] = "sendError" /\ err[c] = "route" /\ ~isRebalancing

\* the awaits of a failure notification: lines 405, 324, 371, 489, 548
FailureNotePcs == {"sendRemoveFailed", "sendSwapFailed", "sendCreateFailed",
                   "sendRebalanceFailed", "sendError"}

\* C14: with a notification channel that delivers, every failure (of a
\* query, of the route request, of the swap execution, of the deposit, of a
\* withdraw transaction) is followed by one failure notification, and the
\* delivery of that notification is not followed by a second failure
\* notification for the same failure.
C14_OneFailureNote ==
    [][\A c \in Cycles :
          /\ (err[c] = "none" /\ err'[c] # "none") => pc'[c] \in FailureNotePcs
          /\ (pc[c] \in FailureNotePcs /\ pc'[c] # pc[c])
                => pc'[c] \notin FailureNotePcs]_vars

\* C15: when rebalancePosition throws for a position, the stored status of
\* the position is not marked notified (so that the next cycle that finds
\* it out of range alerts and calls rebalancePosition again), and the
\* failed run goes to the catch of checkPositions without a second attempt.
C15_FailedNotMarked ==
    [][\A c \in Cycles :
          (pc[c] = "sendRebalanceFailed" /\ pc'[c] # pc[c])
              => /\ pc'[c] = "sendError"
                 /\ ~GetStatus(positionStatuses', cur(c)).lastNotified]_vars

\* C16: a send that throws is not propagated: it never takes a check cycle
\* from a range alert or a skip notification to the catch of
\* checkPositions, the rebalance of a position found out of range is
\* entered whether its alert was delivered or not, and checkPositions
\* never rejects.
C16_SendNeverPropagates ==
    [][\A c \in Cycles :
          /\ (pc[c] \in {"sendOutOfRange", "sendBackInRange", "sendSkip"})
                => pc'[c] # "sendError"
          /\ (variant = "bot" /\ pc[c] = "sendOutOfRange" /\ pc'[c] # pc[c])
                => pc'[c] \in {"sendStart", "sendSkip"}
          /\ pc'[c] # "rejected"]_vars

\* C17: a step of the status command changes neither the status map nor the
\* lock nor anything of a check cycle, and sends no alert; the
\* classification it reports for a position is that of the active bin it
\* has just fetched against the bounds of the position, whatever the stored
\* status says.
C17_StatusReadOnly ==
    [][/\ statusVars' # statusVars
            => UNCHANGED <<isRebalancing, positionStatuses, cycleVars, ghostVars>>
       /\ \A n \in 1..Len(statusReply'.lines) :
             LET l == statusReply'.lines[n]
             IN  l.inRange <=> (l.lower <= statusReply'.activeBin
                                /\ statusReply'.activeBin <= l.upper)]_vars

\* the command has reported p1 in range while the stored status of p1 is
\* out of range and a rebalance is under way
C17_Witness ==
    /\ isRebalancing
    /\ Tracked("p1") /\ ~positionStatuses["p1"].isInRange
    /\ \E n \in 1..Len(statusReply.lines) :
          statusReply.lines[n].position = "p1" /\ statusReply.lines[n].inRange

\* the awaits of rebalancePosition in the order of the text; the loop of
\* removePositionLiquidity is one stage
AwaitOrder ==
    <<"sendStart", "removeLiquidity", "sendAndConfirmRemove", "sendRemoved",
      "sendRemoveFailed", "getTokenBalances", "getPrice", "getRoutes",
      "sendExecuting", "executeRoute", "sendSwapCompleted", "sendSwapFailed",
      "settle", "getFinalBalances", "createGetActiveBin", "initializePosition",
      "sendAndConfirmCreate", "sendCreated", "sendCreateFailed",
      "sendCompleted", "sendRebalanceFailed">>
AwaitRank(p) == CHOOSE n \in 1..Len(AwaitOrder) : AwaitOrder[n] = p

\* C18: a run of rebalancePosition that holds the lock moves forward only:
\* withdraw, then the balances, the plan and the swap if one is planned,
\* then the settle wait, then the balance re-read and the deposit.  Only
\* the withdraw loop comes back to an await it has left; the swap is
\* executed at most once; each stage is entered from the one before it, so
\* the deposit follows the withdraw and the settle wait of the same run
\* also when no swap was planned.
C18_LinearPipeline ==
    [][\A c \in Cycles :
          (pc'[c] # pc[c] /\ pc'[c] \in LockedPcs) =>
              /\ pc[c] \in LockedPcs \cup {"sendOutOfRange"}
              /\ pc[c] = "sendOutOfRange" <=> pc'[c] = "sendStart"
              /\ pc[c] \in LockedPcs =>
                    \/ AwaitRank(pc'[c]) > AwaitRank(pc[c])
                    \/ pc[c] = "sendRemoved" /\ pc'[c] = "sendAndConfirmRemove"
              /\ pc'[c] = "removeLiquidity" => pc[c] = "sendStart"
              /\ pc'[c] = "getTokenBalances" => pc[c] \in WithdrawingPcs
              /\ pc'[c] = "executeRoute" => pc[c] = "sendExecuting"
              /\ pc'[c] = "settle" => pc[c] \in {"getPrice", "sendSwapCompleted"}
              /\ pc'[c] = "getFinalBalances" => pc[c] = "settle"
              /\ pc'[c] = "createGetActiveBin" => pc[c] = "getFinalBalances"
              /\ pc'[c] = "sendAndConfirmCreate" => pc[c] = "initializePosition"]_vars

\* a run that has met no failure is about to submit the deposit while
\* another cycle was turned away
C18_Witness ==
    \E c, d \in Cycles :
        /\ pc[c] = "sendAndConfirmCreate" /\ pc[d] = "sendSkip"
        /\ err[c] = "none"

\* C19: a removal call that rejects aborts the rebalance (no balance read,
\* no swap and no deposit follow, rebalancePosition throws), whereas a
\* withdraw transaction whose submission fails is reported and the same run
\* goes on to the balance read.
C19_RemoveFailureModes ==
    [][\A c \in Cycles :
          /\ (pc[c] = "removeLiquidity" /\ err'[c] = "remove")
                => pc'[c] = "sendRebalanceFailed"
          /\ err'[c] = "remove"
                => pc'[c] \in {"sendRebalanceFailed", "sendError", "rejected"}
          /\ (pc[c] = "sendRemoveFailed" /\ err[c] = "tx" /\ pc'[c] # pc[c])
                => pc'[c] = "getTokenBalances"]_vars

\* C20: no position gets a second out-of-range alert within one run of
\* out-of-range observations, a rebalance that throws after the alert
\* included; and, whenever no check cycle is in flight, the stored
\* lastNotified of a position is true exactly when an out-of-range alert
\* has been delivered for it with no observation back in range since.
C20_NoDuplicateAlert ==
    \A k \in Keys :
        /\ alertsOut[k] <= 1
        /\ (\A c \in Cycles : Free(c))
              => (Stored(k).lastNotified <=> alertsOut[k] >= 1)

\* the awaits at which a cycle has sent the out-of-range alert of its
\* position and has not yet stored the status of the position
AlertingPcs == LockedPcs \cup {"sendOutOfRange", "sendSkip"}

\* C21: while a cycle is suspended inside the alert send or the rebalance
\* of a position, no overlapping cycle sends an out-of-range alert for
\* that position; under every interleaving at most one out-of-range alert
\* is delivered per position and run of out-of-range observations.
C21_NoAlertWhileAlerting ==
    /\ \A c, d \in Cycles :
          (c # d /\ pc[c] \in AlertingPcs /\ pc[d] = "sendOutOfRange")
              => cur(c) # cur(d)
    /\ \A k \in Keys : alertsOut[k] < MaxAlerts

\* C22: the native amount deposited is finalYBalance minus the fee reserve
\* when finalYBalance exceeds the reserve and zero otherwise: it is never
\* negative and never more than what is left above the reserve; the range
\* of the new position is [a - 5, a + 5] for the active bin a read at
\* deposit time, and contains a.
C22_DepositBounds ==
    deposit.made =>
        /\ deposit.totalYAmount =
              (IF inFinalY > 70000000 THEN inFinalY - 70000000 ELSE 0)
        /\ deposit.totalYAmount >= 0
        /\ inFinalY > 70000000 => deposit.totalYAmount <= inFinalY - 70000000
        /\ deposit.minBinId = inDepositBin - 5
        /\ deposit.maxBinId = inDepositBin + 5
        /\ deposit.minBinId <= inDepositBin /\ inDepositBin <= deposit.maxBinId

\* the final native balance is exactly the reserve: nothing of it is
\* deposited, around a negative active bin
C22_Witness ==
    /\ deposit.made /\ inFinalY = 70000000 /\ deposit.totalYAmount = 0
    /\ inDepositBin < 0

\* C23: in every reachable state every entry of the status map has
\* lastNotified = ~isInRange: no position is stored as out of range and
\* not notified, nor as in range and notified.
C23_NotifiedIsNotInRange ==
    \A k \in DOMAIN positionStatuses :
        positionStatuses[k].lastNotified = ~positionStatuses[k].isInRange

\* both kinds of entry are stored while the rebalance of an overlapping
\* cycle has failed: p2 was stored by the cycle that was turned away
C23_Witness ==
    /\ Tracked("p1") /\ positionStatuses["p1"].isInRange
    /\ Tracked("p2") /\ ~positionStatuses["p2"].isInRange
    /\ \E c \in Cycles : pc[c] = "sendRebalanceFailed" /\ cur(c) = "p2"

\* cycle c takes a step that brings it to the await of the out-of-range
\* alert of a position: its loop has just read the status of that position
ReadsForAlert(c) ==
    /\ pc'[c] = "sendOutOfRange"
    /\ <<pc'[c], idx'[c]>> # <<pc[c], idx[c]>>

\* C24: a call of rebalancePosition that returns through the skip path
\* leaves its position stored as out of range with lastNotified = TRUE; a
\* poll that reads a status with lastNotified = TRUE sends no out-of-range
\* alert and so does not call rebalancePosition; and lastNotified goes back
\* to FALSE only by the back-in-range branch of a poll that observes the
\* position in range.
C24_SkipMarksNotified ==
    [][/\ \A c \in Cycles :
             /\ (pc[c] = "sendSkip" /\ pc'[c] \notin {"sendSkip", "sendError"})
                   => /\ cur(c) \in DOMAIN positionStatuses'
                      /\ positionStatuses'[cur(c)] =
                             [isInRange |-> FALSE, lastNotified |-> TRUE]
             /\ ReadsForAlert(c)
                   => ~Stored(positions'[c][idx'[c]]).lastNotified
             /\ (pc[c] # "sendOutOfRange" /\ pc'[c] \in {"sendStart", "sendSkip"})
                   => pc'[c] = pc[c]
       /\ \A k \in Keys :
             (Stored(k).lastNotified /\ k \in DOMAIN positionStatuses'
                                     /\ ~positionStatuses'[k].lastNotified)
                 => /\ positionStatuses'[k].isInRange
                    /\ \E c \in Cycles :
                          /\ pc[c] = "sendBackInRange" /\ cur(c) = k
                          /\ <<pc'[c], idx'[c]>> # <<pc[c], idx[c]>>]_vars

\* p1 was stored as notified by a cycle that was turned away, the rebalance
\* of p1 that holds the lock is still under way, and a later poll of p1 is
\* about to read its status
C24_Witness ==
    \E c, d \in Cycles :
        /\ pc[c] \in StagePcs /\ cur(c) = "p1"
        /\ Tracked("p1") /\ positionStatuses["p1"].lastNotified
        /\ pc[d] = "getActiveBin" /\ positions[d] = <<"p1">>

=============================================================================
